---- MODULE Spec2Model ----
(***************************************************************************)
(* erreport (src/src/lib.rs): the Report error wrapper, its renderer       *)
(* (Display / Debug through Report::to_string), its root-cause lookup      *)
(* (Error::source) and the wrap operation to_report generated by           *)
(* gen_trait_to_report!.                                                   *)
(*                                                                         *)
(* Strings are TLA+ strings: \o is concatenation, Len the length in bytes  *)
(* (every string of the model is ASCII) and SubSeq a byte slice.           *)
(* Option<T> is a sequence: <<>> is None and <<x>> is Some(x).             *)
(* A value of type dyn Error is a record whose field `kind` stands for the *)
(* concrete type behind the trait object ("report" for Report, "terminal"  *)
(* for any other error type of the host).                                  *)
(***************************************************************************)
EXTENDS Integers, Sequences, FiniteSets, TLC

VARIABLES
    res,              \* the Result<T, E> being propagated
    root,             \* history: the failure (or success value) the propagation started with
    wraps,            \* history: number of frames created since then
    op,               \* the last operation: its name and its arguments
    arg,              \* the value of res the last operation was applied to
    out,              \* what the last render or lookup returned
    seen,             \* first result of each public observation of the current chain
    overflow_checks   \* build profile: TRUE = overflow-checks on (dev), FALSE = off (release)

vars == <<res, root, wraps, op, arg, out, seen, overflow_checks>>

----------------------------------------------------------------------------
(* Bounds of the model *)

\* Largest number of Report frames in a chain.
MaxDepth == 3

(* Program constants *)

\* index: u16 (parameter of Report::to_string)
U16Max == 65535

----------------------------------------------------------------------------
(* Option, strings *)

None == <<>>
Some(x) == <<x>>

\* Option::unwrap_or
unwrap_or(opt, default) == IF opt # None THEN opt[1] ELSE default

\* str::get(from..): None when `from` is past the end of the string.
str_get_from(s, from) ==
    IF from <= Len(s) THEN Some(SubSeq(s, from + 1, Len(s))) ELSE None

Digit(d) == SubSeq("0123456789", d + 1, d + 1)

\* Display of an unsigned integer (line: u32), in decimal.
RECURSIVE U32ToString(_)
U32ToString(n) ==
    IF n < 10 THEN Digit(n) ELSE U32ToString(n \div 10) \o Digit(n % 10)

----------------------------------------------------------------------------
(* Inputs: the host's failures, success values and call sites *)

\* A host error without a cause of its own; Debug and Display differ.
IoFailure ==
    [kind |-> "terminal", display |-> "io failure",
     debug |-> "Kind { code: 5 }", cause |-> None]

\* A host error whose Debug and Display agree and which has its own source().
Invalid ==
    [kind |-> "terminal", display |-> "InvalidXXX",
     debug |-> "InvalidXXX", cause |-> Some(IoFailure)]

Terminals == {IoFailure, Invalid}

OkValues == {"t0", "t1"}

\* What a call of to_report() sees: env!("CARGO_PKG_NAME"),
\* env!("CARGO_PKG_VERSION"), env!("CARGO_MANIFEST_DIR") of the calling crate
\* and Location::caller() (file, line).
CallSite(n, v, dir, f, l) ==
    [pkg_name |-> n, pkg_version |-> v, manifest_dir |-> dir, file |-> f, line |-> l]

CallSites ==
    { CallSite("A", "1.0", "/w/a", "/w/a/src/lib.rs", 56),
      CallSite("A", "1.0", "/w/a", "/w/a/src/xx.rs", 23),
      \* the same code as the first site, checked out under another root
      CallSite("A", "1.0", "/home/u/a", "/home/u/a/src/lib.rs", 56),
      \* the same name, another version
      CallSite("A", "2.0", "/w/a2", "/w/a2/src/lib.rs", 56),
      \* rustc was given a relative path (a workspace member)
      CallSite("B", "0.1", "/w/b", "src/lib.rs", 251),
      CallSite("B", "0.1", "/w/b", "m.rs", 7) }

----------------------------------------------------------------------------
(* struct Report and Result *)

Report(n, v, f, l, e) ==
    [kind |-> "report", pkg_name |-> n, pkg_version |-> v,
     file |-> f, line |-> l, err |-> e]

Ok(t) == [tag |-> "Ok", val |-> t]
Err(e) == [tag |-> "Err", err |-> e]

\* <dyn Error>::downcast_ref::<Report>()
downcast_ref(err) == IF err.kind = "report" THEN Some(err) ELSE None

----------------------------------------------------------------------------
(* impl Error for Report *)

RECURSIVE source_first_other_pkg(_)
\* (variant) stops at the first frame of another component
source_first_other_pkg(self) ==
    LET e == downcast_ref(self.err)
    IN  IF e # None
        THEN IF e[1].pkg_name = self.pkg_name /\ e[1].pkg_version = self.pkg_version
             THEN source_first_other_pkg(e[1])
             ELSE Some(e[1])
        ELSE Some(self.err)

RECURSIVE source(_)
source(self) ==
    LET e == downcast_ref(self.err)
    IN  IF e # None THEN source(e[1]) ELSE Some(self.err)

----------------------------------------------------------------------------
(* impl Report: to_string, and Debug / Display *)

\* What a call that builds a String ends with: the String, or a panic.
Returned(s) == [ok |-> TRUE, s |-> s]
Panicked == [ok |-> FALSE, s |-> "attempt to add with overflow"]

\* a + b on u16: with overflow checks the addition panics when the sum
\* leaves the range, without them it wraps.
AddU16(a, b) ==
    IF a + b <= U16Max THEN [ok |-> TRUE, v |-> a + b]
    ELSE IF overflow_checks THEN [ok |-> FALSE, v |-> 0]
    ELSE [ok |-> TRUE, v |-> (a + b) % (U16Max + 1)]

RECURSIVE to_string(_, _, _)

Debug_fmt(self) == to_string(self, TRUE, 0)

Display_fmt(self) == to_string(self, FALSE, 0)

\* format!("{:?}", self.err) and self.err.to_string(): Debug / Display of the
\* boxed dyn Error, dispatched on its concrete type.
FormatErr(err, is_debug) ==
    IF err.kind = "report"
    THEN IF is_debug THEN Debug_fmt(err) ELSE Display_fmt(err)
    ELSE Returned(IF is_debug THEN err.debug ELSE err.display)

\* The frame's own text in front of err_str (match index).
FrameText(self, index, err_str) ==
    IF index = 0
    THEN "{" \o self.pkg_name \o "@" \o self.pkg_version \o "} "
             \o self.file \o ":" \o U32ToString(self.line) \o " -> " \o err_str
    ELSE self.file \o ":" \o U32ToString(self.line) \o " -> " \o err_str

RECURSIVE to_string_skips_frame(_, _, _)
\* (variant) a nested frame of the same component contributes no segment
to_string_skips_frame(self, is_debug, index) ==
    LET report == downcast_ref(self.err)
        same == report # None /\ report[1].pkg_name = self.pkg_name
                              /\ report[1].pkg_version = self.pkg_version
        inner == IF same THEN to_string_skips_frame(report[1], is_debug, 1)
                         ELSE FormatErr(self.err, is_debug)
    IN  IF index = 0 THEN Returned(FrameText(self, index, inner.s)) ELSE inner

RECURSIVE to_string_display_only(_, _, _)
\* (variant) the mode is not handed down to the cause
to_string_display_only(self, is_debug, index) ==
    LET report == downcast_ref(self.err)
        same == report # None /\ report[1].pkg_name = self.pkg_name
                              /\ report[1].pkg_version = self.pkg_version
        inner == IF same THEN to_string_display_only(report[1], FALSE, 1)
                         ELSE FormatErr(self.err, FALSE)
    IN  Returned(FrameText(self, index, inner.s))

to_string(self, is_debug, index) ==
    LET report == downcast_ref(self.err)
        \* .and_then(|report| ...): the closure runs only for a Report
        nested ==
            IF report # None /\ report[1].pkg_name = self.pkg_name
                             /\ report[1].pkg_version = self.pkg_version
            THEN LET next == AddU16(index, 1)
                 IN  IF next.ok THEN Some(to_string(report[1], is_debug, next.v))
                                ELSE Some(Panicked)
            ELSE None
        \* the argument of unwrap_or is evaluated in every case
        default == FormatErr(self.err, is_debug)
        err_str == unwrap_or(nested, default)
    IN  IF nested # None /\ ~nested[1].ok THEN Panicked
        ELSE IF ~default.ok THEN Panicked
        ELSE Returned(FrameText(self, index, err_str.s))

----------------------------------------------------------------------------
(* gen_trait_to_report!: ToReport::to_report *)

\* (variant) a failure that is already a Report of the calling component is
\* re-labelled instead of wrapped
to_report_merges(self, site) ==
    IF self.tag = "Ok" THEN Ok(self.val)
    ELSE IF self.err.kind = "report" /\ self.err.pkg_name = site.pkg_name
                                     /\ self.err.pkg_version = site.pkg_version
         THEN Err([self.err EXCEPT !.file = site.file, !.line = site.line])
         ELSE Err(Report(site.pkg_name, site.pkg_version, site.file, site.line, self.err))

\* (variant) the call site is attached to a success as well
to_report_wraps_ok(self, site) ==
    IF self.tag = "Ok"
    THEN Err(Report(site.pkg_name, site.pkg_version, site.file, site.line,
                    [kind |-> "terminal", display |-> self.val,
                     debug |-> self.val, cause |-> None]))
    ELSE Err(Report(site.pkg_name, site.pkg_version, site.file, site.line, self.err))

to_report(self, site) ==
    IF self.tag = "Ok" THEN Ok(self.val)
    ELSE Err(Report(site.pkg_name,
                    site.pkg_version,
                    unwrap_or(str_get_from(site.file, Len(site.manifest_dir) + 1),
                              site.file),
                    site.line,
                    self.err))

----------------------------------------------------------------------------
(* Measures of a chain *)

RECURSIVE Depth(_)
\* number of Report frames of an error value
Depth(e) == IF e.kind = "report" THEN 1 + Depth(e.err) ELSE 0

NoOp == [name |-> "init", is_debug |-> FALSE, index |-> 0]

Fresh(r) == [chain |-> r, display |-> None, debug |-> None, source |-> None]

----------------------------------------------------------------------------
(* The state machine *)

Init ==
    /\ res \in {Ok(t) : t \in OkValues} \cup {Err(e) : e \in Terminals}
    /\ root = res
    /\ wraps = 0
    /\ op = NoOp
    /\ arg = res
    /\ out = None
    /\ seen = Fresh(res)
    /\ overflow_checks \in BOOLEAN

\* some_result.to_report() at call site `site`
ToReport ==
    \E site \in CallSites :
        /\ res.tag = "Err" => Depth(res.err) < MaxDepth
        /\ res' = to_report(res, site)
        /\ arg' = res
        /\ op' = [name |-> "to_report", is_debug |-> FALSE, index |-> 0, site |-> site]
        /\ wraps' = IF res.tag = "Err" THEN wraps + 1 ELSE wraps
        /\ out' = None
        /\ seen' = Fresh(res')
        /\ UNCHANGED <<root, overflow_checks>>

\* format!("{}", report): takes &self
DisplayFmt ==
    /\ res.tag = "Err" /\ res.err.kind = "report"
    /\ out' = Some(Display_fmt(res.err))
    /\ op' = [name |-> "fmt", is_debug |-> FALSE, index |-> 0,
              again |-> seen.display # None]
    /\ arg' = res
    /\ seen' = IF seen.display = None THEN [seen EXCEPT !.display = out'] ELSE seen
    /\ UNCHANGED <<res, root, wraps, overflow_checks>>

\* (variant) the renderer takes the frame it prints out of the chain
DebugFmtConsumes ==
    /\ res.tag = "Err" /\ res.err.kind = "report"
    /\ out' = Some(Debug_fmt(res.err))
    /\ op' = [name |-> "fmt", is_debug |-> TRUE, index |-> 0,
              again |-> seen.debug # None]
    /\ arg' = res
    /\ seen' = IF seen.debug = None THEN [seen EXCEPT !.debug = out'] ELSE seen
    /\ res' = Err(res.err.err)
    /\ UNCHANGED <<root, wraps, overflow_checks>>

\* format!("{:?}", report): takes &self
DebugFmt ==
    /\ res.tag = "Err" /\ res.err.kind = "report"
    /\ out' = Some(Debug_fmt(res.err))
    /\ op' = [name |-> "fmt", is_debug |-> TRUE, index |-> 0,
              again |-> seen.debug # None]
    /\ arg' = res
    /\ seen' = IF seen.debug = None THEN [seen EXCEPT !.debug = out'] ELSE seen
    /\ UNCHANGED <<res, root, wraps, overflow_checks>>

\* report.source(): takes &self
Source ==
    /\ res.tag = "Err" /\ res.err.kind = "report"
    /\ out' = Some(source(res.err))
    /\ op' = [name |-> "source", is_debug |-> FALSE, index |-> 0,
              again |-> seen.source # None]
    /\ arg' = res
    /\ seen' = IF seen.source = None THEN [seen EXCEPT !.source = out'] ELSE seen
    /\ UNCHANGED <<res, root, wraps, overflow_checks>>

\* The index of an activation of to_string on a frame that is not the
\* outermost one: a frame wrapped by k more frames of its own component is
\* rendered by report.to_string(is_debug, index + 1) with index + 1 = k, for
\* every k the u16 holds: 1 when one such frame wraps it, U16Max when 65535 do.
NestedIndexes == {1, U16Max}

\* report.to_string(is_debug, index): the activation of to_string on res.err
\* during the render of a chain in which `index` further frames of the
\* component of res.err wrap res.err.
NestedToString ==
    \E is_debug \in BOOLEAN, index \in NestedIndexes :
        /\ res.tag = "Err" /\ res.err.kind = "report"
        /\ out' = Some(to_string(res.err, is_debug, index))
        /\ op' = [name |-> "to_string", is_debug |-> is_debug, index |-> index]
        /\ arg' = res
        /\ UNCHANGED <<res, root, wraps, seen, overflow_checks>>

Next ==
    \/ ToReport
    \/ DisplayFmt
    \/ DebugFmt
    \/ Source
    \/ NestedToString

Spec == Init /\ [][Next]_vars

----------------------------------------------------------------------------
(* Vocabulary of the properties *)

\* number of occurrences of pat in s
CountSub(s, pat) ==
    Cardinality({i \in 1..(Len(s) - Len(pat) + 1) : SubSeq(s, i, i + Len(pat) - 1) = pat})

EndsWith(s, suffix) ==
    /\ Len(s) >= Len(suffix)
    /\ SubSeq(s, Len(s) - Len(suffix) + 1, Len(s)) = suffix

WithoutSuffix(s, suffix) == SubSeq(s, 1, Len(s) - Len(suffix))

SamePkg(a, b) == a.pkg_name = b.pkg_name /\ a.pkg_version = b.pkg_version

\* the last operation was a render: a public one (fmt) or a nested activation
IsRender == op.name \in {"fmt", "to_string"}

IsPublicRender == op.name = "fmt"

Form(t, is_debug) == IF is_debug THEN t.debug ELSE t.display

RECURSIVE Uniform(_)
\* every frame of the chain carries the (pkg_name, pkg_version) of the frame it wraps
Uniform(e) ==
    \/ e.kind = "terminal"
    \/ e.err.kind = "terminal"
    \/ SamePkg(e, e.err) /\ Uniform(e.err)

RECURSIVE ArrowFree(_)
\* no file name and neither form of the terminal failure contains "->"
ArrowFree(e) ==
    IF e.kind = "terminal"
    THEN CountSub(e.display, "->") = 0 /\ CountSub(e.debug, "->") = 0
    ELSE CountSub(e.file, "->") = 0 /\ ArrowFree(e.err)

RECURSIVE TaggedFrames(_, _)
\* number of frames that are the outermost one or differ in component from
\* the frame that wraps them; wrapper is None for the outermost frame
TaggedFrames(e, wrapper) ==
    IF e.kind = "terminal" THEN 0
    ELSE (IF wrapper = None \/ ~SamePkg(e, wrapper[1]) THEN 1 ELSE 0)
         + TaggedFrames(e.err, Some(e))

RECURSIVE TransitionRender(_, _, _)
\* the text with a tag exactly on those frames, outermost frame first
TransitionRender(e, wrapper, is_debug) ==
    IF e.kind = "terminal" THEN Form(e, is_debug)
    ELSE (IF wrapper = None \/ ~SamePkg(e, wrapper[1])
          THEN "{" \o e.pkg_name \o "@" \o e.pkg_version \o "} " ELSE "")
         \o e.file \o ":" \o U32ToString(e.line) \o " -> "
         \o TransitionRender(e.err, Some(e), is_debug)

RECURSIVE Segments(_)
\* "file:line -> " of every frame, outermost first
Segments(e) ==
    IF e.kind = "terminal" THEN ""
    ELSE e.file \o ":" \o U32ToString(e.line) \o " -> " \o Segments(e.err)

\* the frame that wraps the rendered one: none for a public render, a frame
\* of the same component for a nested activation
WrapperOfRendered == IF op.index = 0 THEN None ELSE Some(res.err)

\* the call-site path lies under the component root
UnderRoot(site) ==
    /\ Len(site.file) > Len(site.manifest_dir) + 1
    /\ SubSeq(site.file, 1, Len(site.manifest_dir) + 1) = site.manifest_dir \o "/"

RelativeToRoot(site) ==
    SubSeq(site.file, Len(site.manifest_dir) + 2, Len(site.file))

IsSuffixOf(s, t) == EndsWith(t, s)

\* number of "{" in front of the terminal failure's own text (no package
\* name, version or file name of the model holds one)
TagCount(s, is_debug) ==
    CountSub(WithoutSuffix(s, Form(root.err, is_debug)), "{")

----------------------------------------------------------------------------
(* Properties *)

\* C1: root-cause lookup on a chain built by wrapping a terminal failure
\* N >= 1 times, with any mix of components, returns Some(that terminal
\* failure): never None, never a Report frame, never the terminal's own cause.
C1_SourceIsTerminal ==
    op.name = "source" =>
        /\ out[1] # None
        /\ out[1][1].kind = "terminal"
        /\ out[1] = Some(root.err)
        /\ root.err.cause # None => out[1] # root.err.cause

C1_Witness ==
    /\ op.name = "source"
    /\ wraps = MaxDepth
    /\ ~SamePkg(res.err, res.err.err)
    /\ root.err = Invalid
    /\ out[1] = Some(Invalid)

\* C2: a render prints a "{name@version} " tag in front of the outermost
\* frame and of every frame whose (pkg_name, pkg_version) differs from that
\* of the frame that directly wraps it, and in front of no other frame;
\* frames appear outermost first, the terminal failure last.
C2_TagsAtTransitionsOnly ==
    (IsRender /\ out[1].ok) =>
        out[1].s = TransitionRender(res.err, WrapperOfRendered, op.is_debug)

\* C2 for the public renders of the chains of at most MaxDepth frames.
C2_PublicRenderWithinDepth ==
    (IsPublicRender /\ out[1].ok) =>
        out[1].s = TransitionRender(res.err, None, op.is_debug)

C2_Example ==
    /\ IsPublicRender /\ ~op.is_debug
    /\ out[1] = Returned("{A@1.0} src/lib.rs:56 -> {B@0.1} m.rs:7 -> InvalidXXX")

\* C3: the terse render of a chain whose frames all carry one
\* (pkg_name, pkg_version) is the tag, once, at the very start, then
\* "file:line -> " per frame from outermost to innermost, then the terminal
\* failure's display form, whatever the number of frames; a frame that is
\* not the outermost one gets no tag.
C3_OneTagForOneComponent ==
    (IsRender /\ ~op.is_debug /\ Uniform(res.err) /\ out[1].ok) =>
        /\ TagCount(out[1].s, FALSE) = (IF op.index = 0 THEN 1 ELSE 0)
        /\ out[1].s =
              (IF op.index = 0
               THEN "{" \o res.err.pkg_name \o "@" \o res.err.pkg_version \o "} "
               ELSE "")
              \o Segments(res.err) \o root.err.display

\* C3 for the public renders of the chains of at most MaxDepth frames.
C3_PublicRenderWithinDepth ==
    (IsPublicRender /\ ~op.is_debug /\ Uniform(res.err) /\ out[1].ok) =>
        /\ TagCount(out[1].s, FALSE) = 1
        /\ out[1].s =
              "{" \o res.err.pkg_name \o "@" \o res.err.pkg_version \o "} "
              \o Segments(res.err) \o root.err.display

\* C4: after N >= 1 successive wraps of one terminal failure, by any
\* components, the text a render returns (terse or verbose) holds exactly N
\* "->" separators, provided no file name and no form of the terminal
\* failure holds one.
C4_ArrowsMatchWraps ==
    (IsRender /\ out[1].ok /\ ArrowFree(res.err)) =>
        CountSub(out[1].s, "->") = wraps

C4_Witness ==
    /\ IsPublicRender /\ op.is_debug
    /\ wraps = MaxDepth
    /\ SamePkg(res.err, res.err.err)
    /\ ~SamePkg(res.err.err, res.err.err.err)
    /\ out[1].ok
    /\ CountSub(out[1].s, "->") = MaxDepth

C6_SuccessPassthrough ==
    (op.name = "to_report" /\ arg.tag = "Ok") =>
        /\ res = arg
        /\ res = Ok(root.val)
        /\ wraps = 0

C6_Witness ==
    /\ op.name = "to_report"
    /\ arg = Ok("t1")
    /\ res = Ok("t1")

\* C7: the text a verbose render returns ends with the terminal failure's
\* debug form and the text a terse render returns with its display form, for
\* any depth and any component mix; apart from that ending the two texts of
\* one chain are the same, so they differ exactly when the two forms differ.
C7_ModeReachesTerminal ==
    /\ (IsRender /\ out[1].ok) => EndsWith(out[1].s, Form(root.err, op.is_debug))
    /\ (seen.display # None /\ seen.debug # None
            /\ seen.display[1].ok /\ seen.debug[1].ok) =>
        /\ WithoutSuffix(seen.debug[1].s, root.err.debug)
              = WithoutSuffix(seen.display[1].s, root.err.display)
        /\ (seen.debug[1].s # seen.display[1].s) <=> (root.err.debug # root.err.display)

C7_Witness ==
    /\ IsPublicRender /\ op.is_debug
    /\ seen.display # None /\ seen.debug # None
    /\ wraps = MaxDepth
    /\ ~SamePkg(res.err, res.err.err)
    /\ root.err = IoFailure
    /\ EndsWith(seen.debug[1].s, "Kind { code: 5 }")
    /\ EndsWith(seen.display[1].s, "io failure")

\* C8 for the public renders of the chains of at most MaxDepth frames.
C8_PublicRenderWithinDepth ==
    IsPublicRender =>
        /\ out[1].ok
        /\ TagCount(out[1].s, op.is_debug) = TaggedFrames(res.err, None)

\* C8: no render panics, and the u16 index, which starts at 0 and grows by
\* one per nested frame of the same component, never changes which frames
\* get a tag.
C8_RenderNeverFails ==
    IsRender =>
        /\ out[1].ok
        /\ TagCount(out[1].s, op.is_debug) = TaggedFrames(res.err, WrapperOfRendered)

\* C9: the file stored by a wrap is the call-site path relative to the root
\* (CARGO_MANIFEST_DIR) of the wrapping component, so two checkouts of the
\* same code store the same file; a call-site path that does not lie under
\* that root is stored as it is.
C9_FileRelativeToRoot ==
    (op.name = "to_report" /\ arg.tag = "Err") =>
        res.err.file = IF UnderRoot(op.site) THEN RelativeToRoot(op.site)
                                             ELSE op.site.file

====
